---------------------------- MODULE Spec2Model ----------------------------
(***************************************************************************)
(* Model of the flex-rs-data core: activity segmentation of a time-bound   *)
(* data frame (src/src/df/time_bound_df.rs), the n-dimensional histogram   *)
(* (src/src/clustered_data.rs), the per-user memoised frames               *)
(* (src/src/user.rs)                                                       *)
(* and the movement score of a raw frame (src/src/df/raw.rs).              *)
(*                                                                         *)
(* Six specifications share the module's variables:                        *)
(*   SpecSeg   a frame's time column, get_activity_timespans and           *)
(*             split_into_time_chunks,                                     *)
(*   SpecDay   a frame's time column and timespan / day / get_days,        *)
(*   SpecRaw   a raw frame, its movement score and the features of its     *)
(*             posture distribution,                                       *)
(*   SpecHist  one construction NDHistogram::new(data, n, limits) and the  *)
(*             Display of its result,                                      *)
(*   Spec      threads calling get_raw_df / get_score_df on a shared User, *)
(*   SpecFair  the same calls with successful reads and fair scheduling.   *)
(* Each leaves the variables of the other parts at their initial values.   *)
(***************************************************************************)
EXTENDS Integers, Sequences, FiniteSets, TLC

VARIABLES
    times,        \* the frame's time column (epoch ms, in row order)
    segThreshold, \* the threshold of the last get_activity_timespans call
    segOut,       \* the outcome of the last get_activity_timespans call
    splitDuration, \* the duration of the last split_into_time_chunks call
    splitOut,     \* the outcome of the last split_into_time_chunks call
    histData,     \* NDHistogram::new: data, one sequence per dimension
    histN,        \* NDHistogram::new: n, the bins per dimension
    histLimits,   \* NDHistogram::new: limits
    histOut,      \* the outcome of NDHistogram::new(histData, histN, histLimits)
    histText,     \* the outcome of formatting the returned histogram with Display
    pc,           \* User: each thread's position in get_raw_df / get_score_df
    arg,          \* User: each thread's `date` argument of get_raw_df
    tmp,          \* User: each thread's frame built by get_df, not yet stored
    ret,          \* User: the outcome of each thread's last call
    mutex,        \* User: the Mutex of each Memo: its holder and poison flag
    cell,         \* User: the RefCell<Option<T>> inside each Memo
    calls,        \* User: the number of calls started
    acc,          \* RawDf: the acc column, one [x, y, z] per row
    posture,      \* RawDf: each row's angle sum and pitch term, in whole degrees
    mvCall,       \* RawDf: the last movement-score call and its window
    mvOut,        \* RawDf: the outcome of that call
    stamps,       \* TimeBoundDf: the time column as epoch ms, in row order
    dayCall,      \* TimeBoundDf: the last timespan / day / get_days call
    dayOut        \* TimeBoundDf: the outcome of that call

segVars == <<times, segThreshold, segOut, splitDuration, splitOut>>
histVars == <<histData, histN, histLimits, histOut, histText>>

userVars == <<pc, arg, tmp, ret, mutex, cell, calls>>
rawVars == <<acc, posture, mvCall, mvOut>>
dayVars == <<stamps, dayCall, dayOut>>

vars == <<times, segThreshold, segOut, splitDuration, splitOut,
          histData, histN, histLimits, histOut, histText,
          pc, arg, tmp, ret, mutex, cell, calls,
          acc, posture, mvCall, mvOut, stamps, dayCall, dayOut>>

-----------------------------------------------------------------------------
(* Bounds *)

MaxRows == 4       \* rows of a frame: 0 .. MaxRows
MaxTime == 4       \* timestamps are drawn from 0 .. MaxTime
MaxThreshold == 2  \* thresholds are drawn from -1 .. MaxThreshold

MaxDim == 2        \* dimensions of a histogram input: 0 .. MaxDim
MaxCells == 4      \* numbers in a histogram input, all dimensions together
MaxN == 3          \* bins per dimension: 0 .. MaxN

MaxStamps == 2     \* rows of a frame whose days are asked for: 0 .. MaxStamps
MaxMinLength == 1  \* min_length of get_days: None, Some(0) .. Some(MaxMinLength)

MaxAccRows == 17   \* rows of a raw frame's acc column: 0 .. MaxAccRows
MaxWindow == 2     \* windows of calc_movement_score: 0 .. MaxWindow
MaxCalcRows == 5   \* calc_movement_score is called on frames of 0 .. MaxCalcRows rows
MaxPostureRows == 2 \* frames of more rows hold one posture in every row

NumThreads == 2    \* threads sharing the User
MaxCalls == 3      \* calls started on the User, all threads together

TimeValues == 0 .. MaxTime
Thresholds == -1 .. MaxThreshold

\* All sequences over S of length 0 .. n.
SeqUpTo(S, n) == UNION {[1 .. k -> S] : k \in 0 .. n}

-----------------------------------------------------------------------------
(* Outcomes of a call: it returns a value, or the thread panics. *)

NotCalled == [status |-> "none"]

\* Option<T>: None, or Some(x).
None == <<>>
Some(x) == <<x>>
IsSome(o) == o # <<>>
Unwrap(o) == o[1]
Panic(why) == [status |-> "panic", why |-> why]
Ok(val) == [status |-> "ok", value |-> val]

-----------------------------------------------------------------------------
(* TimeBoundDf::get_activity_timespans *)

\* Vec indexing with a 0-based usize index, as the source writes it.
At(v, i) == v[i + 1]
InBounds(v, i) == i >= 0 /\ i < Len(v)

\* v.sort(): ascending, by insertion of each element in turn.
RECURSIVE InsertSorted(_, _)
InsertSorted(x, s) ==
    IF s = <<>> THEN <<x>>
    ELSE IF x <= Head(s) THEN <<x>> \o s
    ELSE <<Head(s)>> \o InsertSorted(x, Tail(s))

RECURSIVE Sort(_)
Sort(s) == IF s = <<>> THEN <<>> ELSE InsertSorted(Head(s), Sort(Tail(s)))

\* v.windows(2).map(|x| x[1] - x[0]): empty when v has fewer than 2 entries.
Windows2Diff(v) ==
    IF Len(v) < 2 THEN <<>>
    ELSE [i \in 1 .. Len(v) - 1 |-> v[i + 1] - v[i]]

\* (begin, end).into(): the Timespan of two millisecond timestamps.
TimespanFrom(b, e) == [begin |-> b, end |-> e]

\* Mutant of ExceedsThreshold: a difference equal to the threshold splits too.
ExceedsThresholdOrEqual(d, threshold) == d >= threshold

\* The test of the loop: diff[i] > threshold.
ExceedsThreshold(d, threshold) == d > threshold

\* Mutant of CloseBlock: the block closes one timestamp late.
CloseBlockLate(v, last_index, i) == TimespanFrom(At(v, last_index), At(v, i + 1))

\* The block pushed inside the loop: (v[last_index], v[i]).
CloseBlock(v, last_index, i) == TimespanFrom(At(v, last_index), At(v, i))

\* The loop `for i in 0..diff.len()`, from index i on, carrying last_index and
\* the blocks pushed so far; yields the pair <<last_index, activity_blocks>>.
RECURSIVE SegmentLoop(_, _, _, _, _, _)
SegmentLoop(v, diff, threshold, i, last_index, blocks) ==
    IF i >= Len(diff) THEN <<last_index, blocks>>
    ELSE IF ExceedsThreshold(At(diff, i), threshold)
         THEN SegmentLoop(v, diff, threshold, i + 1, i + 1,
                          Append(blocks, CloseBlock(v, last_index, i)))
         ELSE SegmentLoop(v, diff, threshold, i + 1, last_index, blocks)

\* Mutant of PushFinalBlock: the final block is forgotten when blocks were
\* already pushed.
PushFinalBlockOnlyIfNone(v, last_index, blocks) ==
    IF ~InBounds(v, last_index) THEN Panic("index out of bounds")
    ELSE IF blocks # <<>> THEN Ok(blocks)
    ELSE Ok(Append(blocks, TimespanFrom(At(v, last_index), At(v, Len(v) - 1))))

\* activity_blocks.push((v[last_index], v.last().unwrap().clone()).into()):
\* v[last_index] panics on an empty v.
PushFinalBlock(v, last_index, blocks) ==
    IF ~InBounds(v, last_index) THEN Panic("index out of bounds")
    ELSE Ok(Append(blocks, TimespanFrom(At(v, last_index), At(v, Len(v) - 1))))

get_activity_timespans(time, threshold) ==
    LET v == Sort(time)
        diff == Windows2Diff(v)
        r == SegmentLoop(v, diff, threshold, 0, 0, <<>>)
    IN  PushFinalBlock(v, r[1], r[2])


-----------------------------------------------------------------------------
(* NDHistogram (src/src/clustered_data.rs)                                 *)
(*                                                                         *)
(* Samples and limits are integers.  An f64 the code computes from them is *)
(* modelled by the exact rational [num, den] it rounds, NaN by den = 0:    *)
(* the rounding error (relative 1e-16) is far below the 1e-8 the code adds *)
(* to a range, which is what decides every floor() for such inputs.        *)

\* The constants of `(0.00000001 + last - first).max(0.000001)`, in units of
\* 0.00000001.
UnitsPerOne == 100000000
MinDeltaUnits == 100

\* f64::MAX and f64::MIN, the start values of Extrema::extrema, by their
\* decimal text: they are beyond every number a sample of the model can be.
F64Max == "1.7976931348623157e308"
F64Min == "-1.7976931348623157e308"

Max2(a, b) == IF a >= b THEN a ELSE b

\* usize::pow, with 0.pow(0) = 1.
RECURSIVE Pow(_, _)
Pow(b, e) == IF e = 0 THEN 1 ELSE b * Pow(b, e - 1)

\* `min` and `max` of Extrema::extrema: still the start value, or a sample.
StartValue(v) == [start |-> TRUE, value |-> v]
Sample(x) == [start |-> FALSE, value |-> x]

\* x < &min and x > &max: a sample is below f64::MAX and above f64::MIN.
BelowMin(x, min) == min.start \/ x < min.value
AboveMax(x, max) == max.start \/ x > max.value

\* Extrema::extrema: one pass keeping the least and the greatest value seen;
\* without a sample the two start values are returned.
RECURSIVE ExtremaFrom(_, _, _)
ExtremaFrom(s, min, max) ==
    IF s = <<>> THEN <<min.value, max.value>>
    ELSE ExtremaFrom(Tail(s),
                     IF BelowMin(Head(s), min) THEN Sample(Head(s)) ELSE min,
                     IF AboveMax(Head(s), max) THEN Sample(Head(s)) ELSE max)

Extrema(s) == ExtremaFrom(s, StartValue(F64Max), StartValue(F64Min))

\* NDHistogram::gen_histogram_border: extrema.0 + (extrema.1 - extrema.0) / n * i
\* for i in 0..=n; with n = 0 the one border is NaN.
gen_histogram_border(extrema, n) ==
    [i \in 1 .. n + 1 |->
        [num |-> extrema[1] * n + (extrema[2] - extrema[1]) * (i - 1), den |-> n]]

\* Mutant of BasketCount: n * D baskets instead of n^D.
BasketCountAsProduct(n, D) == n * D

\* The length of `vec![0; n.pow(data.len() as u32)]`.
BasketCount(n, D) == Pow(n, D)

\* The condition of the early return: only the first sequence is looked at.
IsEmptyInput(data) == data = <<>> \/ data[1] = <<>>

\* Mutant of AssertHolds: the length of limits is not looked at.
AssertHoldsLengthsOnly(data, limits) ==
    \A d \in DOMAIN data : Len(data[d]) = Len(data[1])

\* The assert!: every sequence as long as the first, and limits, when
\* supplied, as long as data.
AssertHolds(data, limits) ==
    /\ \A d \in DOMAIN data : Len(data[d]) = Len(data[1])
    /\ (~IsSome(limits) \/ Len(Unwrap(limits)) = Len(data))

\* `match limits`: the supplied vector, or n (not data.len()) times None.
DefaultLimits(data, n, limits) ==
    IF IsSome(limits) THEN Unwrap(limits) ELSE [i \in 1 .. n |-> None]

\* limits[d].unwrap_or(data[d].extrema()) for the 0-based dimension d.
LimitOrExtrema(data, lim, d) ==
    IF IsSome(At(lim, d)) THEN Unwrap(At(lim, d)) ELSE Extrema(At(data, d))

\* One delta: (0.00000001 + x.last() - x.first()).max(0.000001), in units of
\* 0.00000001; f64::max ignores a NaN operand.
DeltaUnits(border) ==
    LET first == border[1]
        last == border[Len(border)]
    IN  IF first.den = 0 THEN MinDeltaUnits
        ELSE Max2(UnitsPerOne * ((last.num - first.num) \div first.den) + 1,
                  MinDeltaUnits)

\* `as usize` on an f64: saturating, so a negative value (and NaN) gives 0.
AsUsize(x) == IF x < 0 THEN 0 ELSE x

\* Mutant of Coord: the quotient is rounded to the nearest integer.
CoordRounded(value, border, n) ==
    IF border[1].den = 0 THEN 0
    ELSE LET lo == border[1].num \div border[1].den
         IN  AsUsize(((value - lo) * n * UnitsPerOne + DeltaUnits(border) \div 2)
                         \div DeltaUnits(border))

\* One coordinate:
\* (((data[d][i] - borders[d].first()) / deltas[d]) * n).floor() as usize.
Coord(value, border, n) ==
    IF border[1].den = 0 THEN 0
    ELSE LET lo == border[1].num \div border[1].den
         IN  AsUsize(((value - lo) * n * UnitsPerOne) \div DeltaUnits(border))

\* Mutant of NDCoordsInto: the coordinates are not reversed, so dimension 0 is
\* the least significant digit.
RECURSIVE NDCoordsIntoUnreversed(_, _)
NDCoordsIntoUnreversed(coords, n) ==
    IF coords = <<>> THEN 0
    ELSE Head(coords) + n * NDCoordsIntoUnreversed(Tail(coords), n)

\* NDCoords::into: the coordinates reversed and enumerated, each times
\* n.pow(position), summed.
RECURSIVE NDCoordsInto(_, _)
NDCoordsInto(coords, n) ==
    IF coords = <<>> THEN 0
    ELSE Head(coords) * Pow(n, Len(coords) - 1) + NDCoordsInto(Tail(coords), n)

\* The sample loop `for i in 0..data.first().unwrap().len()`, from the 0-based
\* sample i on: the basket of sample i is incremented when index < max_index.
RECURSIVE CountSamples(_, _, _, _, _)
CountSamples(data, borders, n, i, baskets) ==
    IF i >= Len(data[1]) THEN baskets
    ELSE LET coords == [d \in DOMAIN data |-> Coord(At(data[d], i), borders[d], n)]
             index == NDCoordsInto(coords, n)
             max_index == Len(baskets)
         IN  CountSamples(data, borders, n, i + 1,
                          IF index < max_index
                          THEN [baskets EXCEPT ![index + 1] = @ + 1]
                          ELSE baskets)

EmptyHistogram == [baskets |-> <<>>, borders |-> <<>>]

NDHistogramNew(data, n, limits) ==
    IF IsEmptyInput(data) THEN Ok(EmptyHistogram)
    ELSE IF ~AssertHolds(data, limits) THEN Panic("assertion failed")
    ELSE LET lim == DefaultLimits(data, n, limits)
         IN  IF \E d \in 0 .. Len(data) - 1 : ~InBounds(lim, d)
             THEN Panic("index out of bounds")
             ELSE LET borders ==
                          [d \in DOMAIN data |->
                              gen_histogram_border(LimitOrExtrema(data, lim, d - 1), n)]
                      zeros == [k \in 1 .. BasketCount(n, Len(data)) |-> 0]
                  IN  Ok([baskets |-> CountSamples(data, borders, n, 0, zeros),
                          borders |-> borders])

\* NDHistogram::n and NDHistogram::dim.
HistN(h) == IF h.borders = <<>> THEN 0 ELSE Len(h.borders[1]) - 1
HistDim(h) == Len(h.borders)

\* usize::to_string: the decimal digits, most significant first.
Digits == <<"0", "1", "2", "3", "4", "5", "6", "7", "8", "9">>

RECURSIVE to_string(_)
to_string(k) ==
    IF k < 10 THEN <<Digits[k + 1]>>
    ELSE to_string(k \div 10) \o <<Digits[(k % 10) + 1]>>

\* [String]::join(sep): the strings with sep between neighbours.
RECURSIVE Join(_, _)
Join(strings, sep) ==
    IF strings = <<>> THEN <<>>
    ELSE IF Len(strings) = 1 THEN strings[1]
    ELSE strings[1] \o <<sep>> \o Join(Tail(strings), sep)

\* Mutant of Chunks: the slice is cut after every element.
ChunksOfOne(s, size) == [i \in 1 .. Len(s) |-> <<s[i]>>]

\* slice::chunks(size) for size > 0: consecutive pieces of `size` elements,
\* the last one shorter when the length is no multiple of size.
RECURSIVE Chunks(_, _)
Chunks(s, size) ==
    IF s = <<>> THEN <<>>
    ELSE IF Len(s) <= size THEN <<s>>
    ELSE <<SubSeq(s, 1, size)>> \o Chunks(SubSeq(s, size + 1, Len(s)), size)

\* Display::fmt: chunks panics on a chunk size of zero; otherwise each chunk
\* becomes a line of counts joined by "," and the lines are joined by "\n".
\* The text is the sequence of its characters.
DisplayFmt(h) ==
    IF HistN(h) = 0 THEN Panic("chunk size must be non-zero")
    ELSE LET chunks == Chunks(h.baskets, HistN(h))
             lines == [c \in DOMAIN chunks |->
                          Join([i \in DOMAIN chunks[c] |-> to_string(chunks[c][i])],
                               ",")]
         IN  Ok(Join(lines, "\n"))

-----------------------------------------------------------------------------
(* Inputs of NDHistogram::new *)

SampleValues == {0, 1, 2}
LimitPairs == {<<0, 1>>, <<1, 2>>}

\* Every data of D sequences holding at most c numbers together.
RECURSIVE DataOf(_, _)
DataOf(D, c) ==
    IF D = 0 THEN {<<>>}
    ELSE UNION {{<<s>> \o rest : rest \in DataOf(D - 1, c - Len(s))} :
                    s \in SeqUpTo(SampleValues, c)}

\* The scenario of the specification: [1,2,3] x [1,2,3].
ScenarioData == <<<<1, 2, 3>>, <<1, 2, 3>>>>

HistDataSets == {ScenarioData} \cup UNION {DataOf(D, MaxCells) : D \in 0 .. MaxDim}

\* The limits vectors of the given length.
LimitVectors(len) == [1 .. len -> {None} \cup {Some(p) : p \in LimitPairs}]

\* No limits, limits of the data's length, and all-None limits one longer.
HistLimitSets(data) ==
    {None} \cup {Some(l) : l \in LimitVectors(Len(data))}
           \cup {Some([d \in 1 .. Len(data) + 1 |-> None])}


-----------------------------------------------------------------------------
(* User and Memo (src/src/user.rs)                                         *)

Threads == 1 .. NumThreads

\* The Memo fields of User.
Memos == {"raw_df", "last_raw_df_date", "score_df"}

\* Option<NaiveDate> arguments of get_raw_df.
Dates == {None, Some("d1"), Some("d2")}

\* What get_df(OutputType::raw, date) and get_df(OutputType::points, None)
\* read from the user's directories: a frame determined by type and date.
RawDf(date) == [type |-> "raw", date |-> date]
ScoreDf == [type |-> "points", date |-> None]

\* A value whose assignment is under way: `*cache = Some(..)` drops the old
\* frame and moves the new one in, which no other thread may observe.
Torn == [type |-> "torn", date |-> None]

\* Memo::default(): an unlocked, unpoisoned Mutex around RefCell(None).
MemoDefaultMutex == [holder |-> 0, poisoned |-> FALSE]

\* Mutant of CanLock: the lock excludes nobody.
CanLockAlways(m) == TRUE

\* Mutex::lock blocks while another guard of the mutex is alive.
CanLock(m) == mutex[m].holder = 0

\* A panic unwinds the thread: every guard it holds is dropped, poisoning and
\* releasing its mutex.
Unwind(t) ==
    [m \in Memos |->
        IF mutex[m].holder = t THEN [holder |-> 0, poisoned |-> TRUE]
        ELSE mutex[m]]

\* Mutant of Unlock: the guard is leaked and its mutex stays held.
UnlockLeaked(m) == mutex

\* Dropping the guard of m at the end of its scope.
Unlock(m) == [mutex EXCEPT ![m].holder = 0]

\* `.lock().unwrap()` by thread t, continuing at `next`: a poisoned mutex makes
\* unwrap panic.
LockUnwrap(t, m, next) ==
    /\ CanLock(m)
    /\ IF mutex[m].poisoned
       THEN /\ pc' = [pc EXCEPT ![t] = "panicked"]
            /\ ret' = [ret EXCEPT ![t] = Panic("PoisonError")]
            /\ mutex' = Unwind(t)
       ELSE /\ pc' = [pc EXCEPT ![t] = next]
            /\ mutex' = [mutex EXCEPT ![m].holder = t]
            /\ UNCHANGED ret
    /\ UNCHANGED <<arg, tmp, cell, calls, segVars, histVars, rawVars, dayVars>>

\* `.unwrap()` of a failed get_df: the thread panics inside the guard's scope.
GetDfFails(t) ==
    /\ pc' = [pc EXCEPT ![t] = "panicked"]
    /\ ret' = [ret EXCEPT ![t] = Panic("get_df")]
    /\ mutex' = Unwind(t)
    /\ UNCHANGED <<arg, tmp, cell, calls, segVars, histVars, rawVars, dayVars>>

(* User::get_raw_df *)

CallGetRawDf(t) ==
    /\ pc[t] = "idle"
    /\ calls < MaxCalls
    /\ \E date \in Dates : arg' = [arg EXCEPT ![t] = date]
    /\ pc' = [pc EXCEPT ![t] = "raw_lock"]
    /\ ret' = [ret EXCEPT ![t] = NotCalled]
    /\ calls' = calls + 1
    /\ UNCHANGED <<tmp, mutex, cell, segVars, histVars, rawVars, dayVars>>

\* let guard = self.raw_df.lock().unwrap(); let mut cache = guard.borrow_mut();
RawLock(t) ==
    /\ pc[t] = "raw_lock"
    /\ LockUnwrap(t, "raw_df", "raw_check")

\* cache.is_none() || ..: the right operand is evaluated only on a filled cache.
RawIsNone(t) ==
    /\ pc[t] = "raw_check"
    /\ pc' = [pc EXCEPT ![t] =
                 IF ~IsSome(cell["raw_df"]) THEN "raw_get_df" ELSE "raw_date_lock"]
    /\ UNCHANGED <<arg, tmp, ret, mutex, cell, calls, segVars, histVars, rawVars, dayVars>>

\* self.last_raw_df_date.lock().unwrap()
RawDateLock(t) ==
    /\ pc[t] = "raw_date_lock"
    /\ LockUnwrap(t, "last_raw_df_date", "raw_date_read")

\* *(..).borrow() != date, after which the temporary guard is dropped.
RawDateDiffers(t) ==
    /\ pc[t] = "raw_date_read"
    /\ pc' = [pc EXCEPT ![t] =
                 IF cell["last_raw_df_date"] # arg[t] THEN "raw_get_df" ELSE "raw_clone"]
    /\ mutex' = Unlock("last_raw_df_date")
    /\ UNCHANGED <<arg, tmp, ret, cell, calls, segVars, histVars, rawVars, dayVars>>

\* self.get_df(OutputType::raw, date).unwrap()
RawGetDfOk(t) ==
    /\ pc[t] = "raw_get_df"
    /\ tmp' = [tmp EXCEPT ![t] = Some(RawDf(arg[t]))]
    /\ pc' = [pc EXCEPT ![t] = "raw_store"]
    /\ UNCHANGED <<arg, ret, mutex, cell, calls, segVars, histVars, rawVars, dayVars>>

RawGetDf(t) ==
    \/ RawGetDfOk(t)
    \/ pc[t] = "raw_get_df" /\ GetDfFails(t)

\* *cache = Some(RawDf(..)): the assignment begins ..
RawStoreBegin(t) ==
    /\ pc[t] = "raw_store"
    /\ cell' = [cell EXCEPT !["raw_df"] = Some(Torn)]
    /\ pc' = [pc EXCEPT ![t] = "raw_store_end"]
    /\ UNCHANGED <<arg, tmp, ret, mutex, calls, segVars, histVars, rawVars, dayVars>>

\* .. and completes.
RawStoreEnd(t) ==
    /\ pc[t] = "raw_store_end"
    /\ cell' = [cell EXCEPT !["raw_df"] = tmp[t]]
    /\ tmp' = [tmp EXCEPT ![t] = None]
    /\ pc' = [pc EXCEPT ![t] = "raw_clone"]
    /\ UNCHANGED <<arg, ret, mutex, calls, segVars, histVars, rawVars, dayVars>>

\* RawDf(cache.as_deref().unwrap().clone()), then cache and guard are dropped.
RawClone(t) ==
    /\ pc[t] = "raw_clone"
    /\ ret' = [ret EXCEPT ![t] = Ok(Unwrap(cell["raw_df"]))]
    /\ mutex' = Unlock("raw_df")
    /\ pc' = [pc EXCEPT ![t] = "idle"]
    /\ UNCHANGED <<arg, tmp, cell, calls, segVars, histVars, rawVars, dayVars>>

(* User::get_score_df *)

CallGetScoreDf(t) ==
    /\ pc[t] = "idle"
    /\ calls < MaxCalls
    /\ arg' = [arg EXCEPT ![t] = None]
    /\ pc' = [pc EXCEPT ![t] = "score_lock"]
    /\ ret' = [ret EXCEPT ![t] = NotCalled]
    /\ calls' = calls + 1
    /\ UNCHANGED <<tmp, mutex, cell, segVars, histVars, rawVars, dayVars>>

\* let guard = self.score_df.lock().unwrap(); let mut cache = guard.borrow_mut();
ScoreLock(t) ==
    /\ pc[t] = "score_lock"
    /\ LockUnwrap(t, "score_df", "score_check")

\* if cache.is_none()
ScoreIsNone(t) ==
    /\ pc[t] = "score_check"
    /\ pc' = [pc EXCEPT ![t] =
                 IF ~IsSome(cell["score_df"]) THEN "score_get_df" ELSE "score_clone"]
    /\ UNCHANGED <<arg, tmp, ret, mutex, cell, calls, segVars, histVars, rawVars, dayVars>>

\* self.get_df(OutputType::points, None).unwrap()
ScoreGetDfOk(t) ==
    /\ pc[t] = "score_get_df"
    /\ tmp' = [tmp EXCEPT ![t] = Some(ScoreDf)]
    /\ pc' = [pc EXCEPT ![t] = "score_store"]
    /\ UNCHANGED <<arg, ret, mutex, cell, calls, segVars, histVars, rawVars, dayVars>>

ScoreGetDf(t) ==
    \/ ScoreGetDfOk(t)
    \/ pc[t] = "score_get_df" /\ GetDfFails(t)

\* *cache = Some(ScoreDf(..)): the assignment begins ..
ScoreStoreBegin(t) ==
    /\ pc[t] = "score_store"
    /\ cell' = [cell EXCEPT !["score_df"] = Some(Torn)]
    /\ pc' = [pc EXCEPT ![t] = "score_store_end"]
    /\ UNCHANGED <<arg, tmp, ret, mutex, calls, segVars, histVars, rawVars, dayVars>>

\* .. and completes.
ScoreStoreEnd(t) ==
    /\ pc[t] = "score_store_end"
    /\ cell' = [cell EXCEPT !["score_df"] = tmp[t]]
    /\ tmp' = [tmp EXCEPT ![t] = None]
    /\ pc' = [pc EXCEPT ![t] = "score_clone"]
    /\ UNCHANGED <<arg, ret, mutex, calls, segVars, histVars, rawVars, dayVars>>

\* ScoreDf(cache.as_deref().unwrap().clone()), then cache and guard are dropped.
ScoreClone(t) ==
    /\ pc[t] = "score_clone"
    /\ ret' = [ret EXCEPT ![t] = Ok(Unwrap(cell["score_df"]))]
    /\ mutex' = Unlock("score_df")
    /\ pc' = [pc EXCEPT ![t] = "idle"]
    /\ UNCHANGED <<arg, tmp, cell, calls, segVars, histVars, rawVars, dayVars>>

-----------------------------------------------------------------------------
(* The variables of a part no call has been made on. *)

SegIdle ==
    /\ times = <<>>
    /\ segThreshold = 0
    /\ segOut = NotCalled
    /\ splitDuration = 0
    /\ splitOut = NotCalled

HistIdle ==
    /\ histData = <<>>
    /\ histN = 0
    /\ histLimits = None
    /\ histOut = NotCalled
    /\ histText = NotCalled

\* User::new: three default Memos; no thread has called yet.
UserIdle ==
    /\ pc = [t \in Threads |-> "idle"]
    /\ arg = [t \in Threads |-> None]
    /\ tmp = [t \in Threads |-> None]
    /\ ret = [t \in Threads |-> NotCalled]
    /\ mutex = [m \in Memos |-> MemoDefaultMutex]
    /\ cell = [m \in Memos |-> None]
    /\ calls = 0

RawIdle == acc = <<>> /\ posture = <<>> /\ mvCall = None /\ mvOut = NotCalled

DayIdle == stamps = <<>> /\ dayCall = None /\ dayOut = NotCalled

-----------------------------------------------------------------------------
(* SpecHist: the arguments are chosen, then NDHistogram::new is called. *)

InitHist ==
    /\ histData \in HistDataSets
    /\ histN \in 0 .. MaxN
    /\ histLimits \in HistLimitSets(histData)
    /\ histOut = NotCalled
    /\ histText = NotCalled
    /\ SegIdle
    /\ UserIdle
    /\ RawIdle
    /\ DayIdle

New ==
    /\ histOut = NotCalled
    /\ histOut' = NDHistogramNew(histData, histN, histLimits)
    /\ UNCHANGED <<histData, histN, histLimits, histText, segVars, userVars,
                   rawVars, dayVars>>

\* format!("{}", h) of the histogram h that new returned.
Fmt ==
    /\ histOut.status = "ok"
    /\ histText = NotCalled
    /\ histText' = DisplayFmt(histOut.value)
    /\ UNCHANGED <<histData, histN, histLimits, histOut, segVars, userVars,
                   rawVars, dayVars>>

NextHist == New \/ Fmt

SpecHist == InitHist /\ [][NextHist]_vars

-----------------------------------------------------------------------------
(* RawDf::with_movement_score and RawDf::calc_movement_score               *)
(* (src/src/df/raw.rs)                                                     *)

\* The window of with_movement_score: `vec![0.0; 15]`, calc_movement_score(15).
MovementWindow == 15

\* The divisor of a window's mean: `/ 8.0`.
ScoreDivisor == 8

\* The f64 0.0 of the padding.
Zero == [num |-> 0, den |-> 1]

Abs(x) == IF x < 0 THEN -x ELSE x

\* s without the first occurrence of e.
RECURSIVE RemoveFirst(_, _)
RemoveFirst(s, e) ==
    IF s = <<>> THEN <<>>
    ELSE IF Head(s) = e THEN Tail(s)
    ELSE <<Head(s)>> \o RemoveFirst(Tail(s), e)

\* `.par_bridge() ... .collect::<Vec<_>>()`: every item once, in an order that
\* depends on which worker takes which item: any rearrangement of s.
RECURSIVE ParBridgeCollect(_)
ParBridgeCollect(s) ==
    IF s = <<>> THEN {<<>>}
    ELSE UNION {{<<e>> \o p : p \in ParBridgeCollect(RemoveFirst(s, e))} :
                    e \in {s[i] : i \in DOMAIN s}}

\* `[..].windows(size)` for size > 0: the Len(s) - size + 1 runs of `size`
\* consecutive items, none when s is shorter than size.
Windows(s, size) ==
    [k \in 1 .. (IF Len(s) >= size THEN Len(s) - size + 1 ELSE 0) |->
        SubSeq(s, k, k + size - 1)]

\* The first closure: the absolute difference of two consecutive rows, axis
\* by axis.
AbsDiff(x) == [a \in 1 .. 3 |-> Abs(x[2][a] - x[1][a])]

\* The second closure: the three axes of every difference of the window
\* summed, as f64 divided by n and by 8.0.
RECURSIVE SumAxes(_)
SumAxes(v) ==
    IF v = <<>> THEN 0
    ELSE Head(v)[1] + Head(v)[2] + Head(v)[3] + SumAxes(Tail(v))

WindowScore(v, n) == [num |-> SumAxes(v), den |-> n * ScoreDivisor]

\* calc_movement_score: the set of vectors the call can return, or a panic
\* when windows(n) is given n = 0.
calc_movement_score(rows, n) ==
    IF n = 0 THEN {Panic("window size must be non-zero")}
    ELSE UNION {{Ok(scores) :
                    scores \in ParBridgeCollect(
                        [k \in DOMAIN Windows(diffs, n) |->
                            WindowScore(Windows(diffs, n)[k], n)])} :
                 diffs \in ParBridgeCollect(
                     [k \in DOMAIN Windows(rows, 2) |-> AbsDiff(Windows(rows, 2)[k])])}

\* `self.0.clone().replace_or_add("movement", v.to_series()).unwrap()` on a
\* frame of the given height: the column is taken when it is as long as the
\* frame; any other length is a shape mismatch and unwrap panics. A frame
\* without rows takes or refuses the column, depending on the polars release.
ReplaceOrAddUnwrap(height, v) ==
    IF Len(v) = height THEN {Ok(v)}
    ELSE IF height = 0 THEN {Ok(v), Panic("shape mismatch")}
    ELSE {Panic("shape mismatch")}

\* with_movement_score: 15 zeros, calc_movement_score(15) appended, stored as
\* the column "movement". The outcomes the call can have: the column of the
\* returned frame, or a panic.
with_movement_score(rows) ==
    UNION {ReplaceOrAddUnwrap(Len(rows),
                              [i \in 1 .. MovementWindow |-> Zero] \o score.value) :
              score \in calc_movement_score(rows, MovementWindow)}

\* `p.par_iter().map(..).collect()`: an indexed parallel iterator, collected
\* in the order of its items whatever the schedule.
ParIterCollect(s) == {s}

\* The limits of calc_posture_distribution, in whole degrees:
\* (-60 * PI / 180, 60 * PI / 180) and (-35 * PI / 180, 35 * PI / 180).
PostureLimits == Some(<<Some(<<-60, 60>>), Some(<<-35, 35>>)>>)

\* `vec![a, b].into_iter().rev().collect()`
Rev2(a, b) == <<b, a>>

\* calc_posture_distribution: the calls NDHistogram::new(data, n, limits) it
\* can end in. The angle sums go through par_iter, the pitch terms through
\* zip and par_bridge; the two vectors are handed over in reverse.
calc_posture_distribution(rows, n) ==
    {Ok([data |-> Rev2(bends, pitches), n |-> n, limits |-> PostureLimits]) :
        bends \in ParIterCollect([i \in DOMAIN rows |-> rows[i].bend]),
        pitches \in ParBridgeCollect([i \in DOMAIN rows |-> rows[i].pitch])}

-----------------------------------------------------------------------------
(* SpecRaw: a raw frame is loaded, then its movement score is asked for. *)

\* Readings of the acceleration sensor.
AccSamples == {<<0, 0, 0>>, <<8, 0, 0>>, <<0, -8, 16>>}

\* The frames of `len` rows that read a until row k and b from then on.
StepSignals(len) ==
    {[i \in 1 .. len |-> IF i <= k THEN a ELSE b] :
        k \in 0 .. len, a \in AccSamples, b \in AccSamples}

AccColumns == UNION {StepSignals(len) : len \in 0 .. MaxAccRows}
                  \cup SeqUpTo(AccSamples, 3)

\* What calc_angles and CasePosition::new derive from a row: the sum of its
\* first nine alpha angles and its pitch term, in whole degrees.
PostureValues == {[bend |-> b, pitch |-> p] : b \in {0, 30}, p \in {0, 45}}

\* The posture of `len` rows: any values for a short frame, the upright
\* posture in every row of a longer one.
PostureColumns(len) ==
    IF len <= MaxPostureRows THEN [1 .. len -> PostureValues]
    ELSE {[i \in 1 .. len |-> [bend |-> 0, pitch |-> 0]]}

InitRaw ==
    /\ acc \in AccColumns
    /\ posture \in PostureColumns(Len(acc))
    /\ mvCall = None
    /\ mvOut = NotCalled
    /\ SegIdle
    /\ HistIdle
    /\ UserIdle
    /\ DayIdle

WithMovementScore ==
    /\ mvOut = NotCalled
    /\ \E out \in with_movement_score(acc) :
           /\ mvCall' = Some([op |-> "with_movement_score", n |-> MovementWindow])
           /\ mvOut' = out
    /\ UNCHANGED <<acc, posture, segVars, histVars, userVars, dayVars>>

CalcMovementScore ==
    /\ mvOut = NotCalled
    /\ Len(acc) <= MaxCalcRows
    /\ \E n \in 0 .. MaxWindow :
           \E out \in calc_movement_score(acc, n) :
               /\ mvCall' = Some([op |-> "calc_movement_score", n |-> n])
               /\ mvOut' = out
    /\ UNCHANGED <<acc, posture, segVars, histVars, userVars, dayVars>>

CalcPostureDistribution ==
    /\ mvOut = NotCalled
    /\ Len(acc) <= MaxCalcRows
    /\ \E n \in 0 .. MaxN :
           \E out \in calc_posture_distribution(posture, n) :
               /\ mvCall' = Some([op |-> "calc_posture_distribution", n |-> n])
               /\ mvOut' = out
    /\ UNCHANGED <<acc, posture, segVars, histVars, userVars, dayVars>>

NextRaw == WithMovementScore \/ CalcMovementScore \/ CalcPostureDistribution

SpecRaw == InitRaw /\ [][NextRaw]_vars

-----------------------------------------------------------------------------
(* TimeBoundDf::timespan, day, get_days and Between::between               *)
(* (src/src/df/time_bound_df.rs)                                           *)

\* An i64 of epoch milliseconds is written [day |-> d, ms |-> m], the value
\* d * 86,400,000 + m past 2023-01-01 00:00:00 with 0 <= m < 86,400,000, which
\* is too wide to be written as one number here. A NaiveDateTime is [date, secs, milli]: the date (counted
\* the same way), the second of the day and the millisecond of the second.
MsPerSec == 1000

\* NaiveDate::from_ymd_opt(2023, 1, 1) and NaiveDate::from_ymd_opt(2024, 1, 1).
Date2023 == 0
Date2024 == 365

\* NaiveDateTime::from_timestamp_millis(x).unwrap()
from_timestamp_millis(x) ==
    [date |-> x.day, secs |-> x.ms \div MsPerSec, milli |-> x.ms % MsPerSec]

\* NaiveDateTime::timestamp_millis
timestamp_millis(dt) == [day |-> dt.date, ms |-> dt.secs * MsPerSec + dt.milli]

\* date.and_hms_opt(h, m, s).unwrap(), date.and_time(from_hms_opt(h, m, s))
and_hms(date, h, m, s) == [date |-> date, secs |-> h * 3600 + m * 60 + s, milli |-> 0]

\* a <= b on i64 epoch milliseconds.
MillisLeq(a, b) == a.day < b.day \/ (a.day = b.day /\ a.ms <= b.ms)

\* i64::max and i64::min.
MillisMax(a, b) == IF MillisLeq(a, b) THEN b ELSE a
MillisMin(a, b) == IF MillisLeq(a, b) THEN a ELSE b

\* a <= b on NaiveDateTime.
DateTimeLeq(a, b) ==
    \/ a.date < b.date
    \/ a.date = b.date /\ a.secs < b.secs
    \/ a.date = b.date /\ a.secs = b.secs /\ a.milli <= b.milli

\* self.time().min() and self.time().max(): None on a column without rows.
RECURSIVE ColumnMin(_)
ColumnMin(col) ==
    IF col = <<>> THEN None
    ELSE IF Tail(col) = <<>> THEN Some(Head(col))
    ELSE Some(MillisMin(Head(col), Unwrap(ColumnMin(Tail(col)))))

RECURSIVE ColumnMax(_)
ColumnMax(col) ==
    IF col = <<>> THEN None
    ELSE IF Tail(col) = <<>> THEN Some(Head(col))
    ELSE Some(MillisMax(Head(col), Unwrap(ColumnMax(Tail(col)))))

\* Mutant of timespan: the span begins where the window begins.
timespan_from_window_begin(col) ==
    IF IsSome(ColumnMin(col)) /\ IsSome(ColumnMax(col))
    THEN Some([begin |-> and_hms(Date2023, 0, 0, 0),
               end |-> from_timestamp_millis(
                           MillisMin(Unwrap(ColumnMax(col)),
                                     timestamp_millis(and_hms(Date2024, 0, 0, 0))))])
    ELSE None

\* timespan: begin is the column's minimum, raised to 2023-01-01 00:00:00 when
\* below it; end is the column's maximum, lowered to 2024-01-01 00:00:00 when
\* above it; None without a minimum or maximum.
timespan(col) ==
    IF IsSome(ColumnMin(col)) /\ IsSome(ColumnMax(col))
    THEN Some([begin |-> from_timestamp_millis(
                             MillisMax(Unwrap(ColumnMin(col)),
                                       timestamp_millis(and_hms(Date2023, 0, 0, 0)))),
               end |-> from_timestamp_millis(
                           MillisMin(Unwrap(ColumnMax(col)),
                                     timestamp_millis(and_hms(Date2024, 0, 0, 0))))])
    ELSE None

\* Timespan::is_inside, both ends inclusive.
is_inside(ts, t) == DateTimeLeq(ts.begin, t) /\ DateTimeLeq(t, ts.end)

\* between: the rows whose time is inside ts, in their order.
RECURSIVE between(_, _)
between(col, ts) ==
    IF col = <<>> THEN <<>>
    ELSE (IF is_inside(ts, from_timestamp_millis(Head(col)))
          THEN <<Head(col)>> ELSE <<>>) \o between(Tail(col), ts)

\* 1970-01-01, the day of epoch millisecond 0, counted from 2023-01-01.
UnixEpoch == -19358

\* The i64 epoch milliseconds x of a time column whose timestamps lie within
\* the first day of the epoch.
EpochMillis(x) == [day |-> UnixEpoch, ms |-> x]

\* The Timespan that (begin, end).into() built from two epoch milliseconds,
\* as the two NaiveDateTime ends is_inside compares with.
IntoTimespan(block) ==
    [begin |-> from_timestamp_millis(EpochMillis(block.begin)),
     end |-> from_timestamp_millis(EpochMillis(block.end))]

\* split_into_time_chunks: between of every block of get_activity_timespans,
\* in the order of the blocks; a panic of get_activity_timespans propagates.
split_into_time_chunks(time, duration) ==
    LET blocks == get_activity_timespans(time, duration)
        col == [i \in DOMAIN time |-> EpochMillis(time[i])]
    IN  IF blocks.status # "ok" THEN blocks
        ELSE Ok([k \in DOMAIN blocks.value |->
                    between(col, IntoTimespan(blocks.value[k]))])

\* Mutant of DaySpan: the day ends with its last millisecond.
DaySpanToLastMilli(date) ==
    [begin |-> and_hms(date, 0, 0, 0),
     end |-> [date |-> date, secs |-> 23 * 3600 + 59 * 60 + 59, milli |-> 999]]

\* The Timespan built by day: date 00:00:00 to date 23:59:59.
DaySpan(date) ==
    [begin |-> and_hms(date, 0, 0, 0), end |-> and_hms(date, 23, 59, 59)]

day(col, date) == between(col, DaySpan(date))

\* Timespan::days: every calendar day from the day of begin to the day of end.
days(ts) == [k \in 1 .. (ts.end.date - ts.begin.date + 1) |-> ts.begin.date + k - 1]

\* `x.into()` of a day of days(): the Timespan date 00:00:00 to date 23:59:59.
DayIntoTimespan(date) ==
    [begin |-> and_hms(date, 0, 0, 0), end |-> and_hms(date, 23, 59, 59)]

\* min_length.unwrap_or(0)
UnwrapOr(o, default) == IF IsSome(o) THEN Unwrap(o) ELSE default

\* Mutant of KeepDay: a day of exactly min_length rows is kept.
KeepDayFromMinLength(height, min_length) == height >= UnwrapOr(min_length, 0)

\* The test of the filter_map closure: r.data.height() > min_length.unwrap_or(0)
KeepDay(height, min_length) == height > UnwrapOr(min_length, 0)

\* The closure's `r`: the day and the rows between its two ends.
DatedData(col, x) == [time |-> x, data |-> between(col, DayIntoTimespan(x))]

\* `.into_iter().filter_map(..).collect()`: r of every day in turn, kept when
\* the test holds.
FilterMapDays(col, ds, min_length) ==
    LET Kept(r) == KeepDay(Len(r.data), min_length)
    IN  SelectSeq([k \in DOMAIN ds |-> DatedData(col, ds[k])], Kept)

get_days(col, min_length) ==
    IF IsSome(timespan(col))
    THEN FilterMapDays(col, days(Unwrap(timespan(col))), min_length)
    ELSE <<>>

-----------------------------------------------------------------------------
(* ScoreDf::get_days (src/src/df/score.rs) *)

\* convert_i64_to_time on a frame whose t column is Datetime, which time()
\* requires: `.i64()` fails and the frame is returned as it is.
convert_t_to_time(col) == col

\* sort_in_place(["t"], false): the rows in ascending order of t.
RECURSIVE InsertMillis(_, _)
InsertMillis(x, s) ==
    IF s = <<>> THEN <<x>>
    ELSE IF MillisLeq(x, Head(s)) THEN <<x>> \o s
    ELSE <<Head(s)>> \o InsertMillis(x, Tail(s))

RECURSIVE sort_in_place(_)
sort_in_place(col) ==
    IF col = <<>> THEN <<>> ELSE InsertMillis(Head(col), sort_in_place(Tail(col)))

\* column("t").cast(&DataType::Date): the calendar day of each row.
CastDate(col) == [i \in DOMAIN col |-> col[i].day]

\* groupby_with_series(.., maintain_order = true): the row indices of each
\* key, the keys in the order of their first row.
FirstRows(keys) == {i \in DOMAIN keys : \A j \in 1 .. i - 1 : keys[j] # keys[i]}

RECURSIVE InOrder(_)
InOrder(S) ==
    IF S = {} THEN <<>>
    ELSE LET least == CHOOSE i \in S : \A j \in S : i <= j
         IN  <<least>> \o InOrder(S \ {least})

Groups(keys) ==
    LET firsts == InOrder(FirstRows(keys))
    IN  [g \in DOMAIN firsts |->
            InOrder({i \in DOMAIN keys : keys[i] = keys[firsts[g]]})]

\* self.0.take(idx): the rows at the indices, in their order.
Take(col, idx) == [k \in DOMAIN idx |-> col[idx[k]]]

\* The frame ScoreDf::get_days leaves behind: converted, then sorted by t.
ScoreDfSorted(col) == sort_in_place(convert_t_to_time(col))

\* What ScoreDf::get_days returns: Ok(ScoreDf) of the rows of each day of the
\* sorted frame.
ScoreDf_get_days(col) ==
    LET sorted == ScoreDfSorted(col)
        groups == Groups(CastDate(sorted))
    IN  [g \in DOMAIN groups |-> Ok(Take(sorted, groups[g]))]

-----------------------------------------------------------------------------
(* SpecDay: a frame is loaded, then timespan, day and get_days are called;
   ScoreDf::get_days sorts the frame the later calls see. *)

\* Timestamps around the two ends of the window 2023-01-01 .. 2024-01-01 and
\* around 23:59:59 of a day.
StampValues ==
    {[day |-> d, ms |-> m] : d \in {Date2023 - 1, Date2023, Date2023 + 1},
                             m \in {0, 86399000, 86399500}}
        \cup {[day |-> Date2024, ms |-> 0], [day |-> Date2024 + 1, ms |-> 0]}

DateArgs == {Date2023 - 1, Date2023, Date2023 + 1, Date2024}
MinLengths == {None} \cup {Some(k) : k \in 0 .. MaxMinLength}

\* The last call on the frame was `name`.
DayCalled(name) == IsSome(dayCall) /\ Unwrap(dayCall).op = name

InitDay ==
    /\ stamps \in SeqUpTo(StampValues, MaxStamps)
    /\ dayCall = None
    /\ dayOut = NotCalled
    /\ SegIdle
    /\ HistIdle
    /\ UserIdle
    /\ RawIdle

\* No call has been made on the frame since it was loaded or last sorted by
\* ScoreDf::get_days.
FrameFresh == dayOut = NotCalled \/ DayCalled("ScoreDf::get_days")

Timespan ==
    /\ FrameFresh
    /\ dayCall' = Some([op |-> "timespan", arg |-> None])
    /\ dayOut' = Ok(timespan(stamps))
    /\ UNCHANGED <<stamps, segVars, histVars, userVars, rawVars>>

Day ==
    /\ FrameFresh
    /\ \E date \in DateArgs :
           /\ dayCall' = Some([op |-> "day", arg |-> date])
           /\ dayOut' = Ok(day(stamps, date))
    /\ UNCHANGED <<stamps, segVars, histVars, userVars, rawVars>>

\* get_days, also called again on a frame it has been called on.
GetDays ==
    /\ FrameFresh \/ DayCalled("get_days")
    /\ \E min_length \in MinLengths :
           /\ dayCall' = Some([op |-> "get_days", arg |-> min_length])
           /\ dayOut' = Ok(get_days(stamps, min_length))
    /\ UNCHANGED <<stamps, segVars, histVars, userVars, rawVars>>

\* ScoreDf::get_days(&mut self): the frame is sorted in place, then grouped.
ScoreDfGetDays ==
    /\ dayOut = NotCalled
    /\ dayCall' = Some([op |-> "ScoreDf::get_days", arg |-> None])
    /\ stamps' = ScoreDfSorted(stamps)
    /\ dayOut' = Ok(ScoreDf_get_days(stamps))
    /\ UNCHANGED <<segVars, histVars, userVars, rawVars>>

NextDay == Timespan \/ Day \/ GetDays \/ ScoreDfGetDays

SpecDay == InitDay /\ [][NextDay]_vars

-----------------------------------------------------------------------------
(* SpecSeg: a frame is loaded, then get_activity_timespans or
   split_into_time_chunks is called on it, any number of times.  Both take
   &self and leave the frame as it is, so a behaviour follows one of them. *)

InitSeg ==
    /\ times \in SeqUpTo(TimeValues, MaxRows)
    /\ segThreshold = 0
    /\ segOut = NotCalled
    /\ splitDuration = 0
    /\ splitOut = NotCalled
    /\ HistIdle
    /\ UserIdle
    /\ RawIdle
    /\ DayIdle

GetActivityTimespans ==
    \E threshold \in Thresholds :
        /\ splitOut = NotCalled
        /\ segThreshold' = threshold
        /\ segOut' = get_activity_timespans(times, threshold)
        /\ UNCHANGED <<times, splitDuration, splitOut, histVars, userVars,
                       rawVars, dayVars>>

SplitIntoTimeChunks ==
    \E duration \in Thresholds :
        /\ segOut = NotCalled
        /\ splitDuration' = duration
        /\ splitOut' = split_into_time_chunks(times, duration)
        /\ UNCHANGED <<times, segThreshold, segOut, histVars, userVars,
                       rawVars, dayVars>>

NextSeg == GetActivityTimespans \/ SplitIntoTimeChunks

SpecSeg == InitSeg /\ [][NextSeg]_vars

-----------------------------------------------------------------------------
(* Spec: threads call get_raw_df and get_score_df on one shared User. *)

Init == UserIdle /\ SegIdle /\ HistIdle /\ RawIdle /\ DayIdle

Next ==
    \E t \in Threads :
           \/ CallGetRawDf(t)
           \/ RawLock(t)
           \/ RawIsNone(t)
           \/ RawDateLock(t)
           \/ RawDateDiffers(t)
           \/ RawGetDf(t)
           \/ RawStoreBegin(t)
           \/ RawStoreEnd(t)
           \/ RawClone(t)
           \/ CallGetScoreDf(t)
           \/ ScoreLock(t)
           \/ ScoreIsNone(t)
           \/ ScoreGetDf(t)
           \/ ScoreStoreBegin(t)
           \/ ScoreStoreEnd(t)
           \/ ScoreClone(t)

Spec == Init /\ [][Next]_vars

-----------------------------------------------------------------------------
(* SpecFair: the same calls when every get_df succeeds, under a scheduler that
   lets every thread run and hands a lock that keeps becoming free to every
   thread waiting for it. *)

\* A step of thread t inside a call.
Proceed(t) ==
    \/ RawLock(t)
    \/ RawIsNone(t)
    \/ RawDateLock(t)
    \/ RawDateDiffers(t)
    \/ RawGetDfOk(t)
    \/ RawStoreBegin(t)
    \/ RawStoreEnd(t)
    \/ RawClone(t)
    \/ ScoreLock(t)
    \/ ScoreIsNone(t)
    \/ ScoreGetDfOk(t)
    \/ ScoreStoreBegin(t)
    \/ ScoreStoreEnd(t)
    \/ ScoreClone(t)

NextFair ==
    \E t \in Threads :
        \/ CallGetRawDf(t)
        \/ CallGetScoreDf(t)
        \/ Proceed(t)

SpecFair == Init /\ [][NextFair]_vars /\ \A t \in Threads : SF_vars(Proceed(t))

-----------------------------------------------------------------------------
(* Helpers of the properties, stated without the code's sort and loop. *)

Range(s) == {s[i] : i \in DOMAIN s}
SetMin(S) == CHOOSE x \in S : \A y \in S : x <= y
SetMax(S) == CHOOSE x \in S : \A y \in S : y <= x

\* The ascending arrangement of s: position k holds the value x with fewer
\* than k entries below it and at least k entries not above it.
Ranked(s) ==
    [k \in 1 .. Len(s) |->
        CHOOSE x \in Range(s) :
            /\ Cardinality({i \in DOMAIN s : s[i] < x}) < k
            /\ k <= Cardinality({i \in DOMAIN s : s[i] <= x})]

\* The positions i of v whose step to the next entry exceeds the threshold.
Gaps(v, threshold) == {i \in 1 .. Len(v) - 1 : v[i + 1] - v[i] > threshold}

KthSmallest(S, k) == CHOOSE x \in S : Cardinality({y \in S : y <= x}) = k

\* The maximal runs of v: a run ends at each gap and at the last entry, and
\* begins at the first entry and after each gap.
MaximalRuns(v, threshold) ==
    LET gaps == Gaps(v, threshold)
        begins == {1} \cup {i + 1 : i \in gaps}
        ends == gaps \cup {Len(v)}
    IN  [k \in 1 .. Cardinality(gaps) + 1 |->
            [begin |-> v[KthSmallest(begins, k)], end |-> v[KthSmallest(ends, k)]]]

SegCalled == segOut.status # "none"

-----------------------------------------------------------------------------
(* Properties of get_activity_timespans, checked under SpecSeg *)

\* C1: with at least 2 timestamps, the call returns exactly the maximal runs of
\* the ascending timestamps: a block closes at v[i] and the next opens at
\* v[i+1] precisely when v[i+1] - v[i] > threshold; the first block begins at
\* the minimum, the last ends at the maximum, and without any such difference
\* the result is the single block [min, max].
C1_MaximalRuns ==
    (SegCalled /\ Len(times) >= 2) =>
        /\ segOut = Ok(MaximalRuns(Ranked(times), segThreshold))
        /\ segOut.value[1].begin = SetMin(Range(times))
        /\ segOut.value[Len(segOut.value)].end = SetMax(Range(times))
        /\ (Gaps(Ranked(times), segThreshold) = {} =>
               segOut.value =
                   <<[begin |-> SetMin(Range(times)), end |-> SetMax(Range(times))]>>)

\* C1 witness: an unsorted frame where one difference equals the threshold
\* (no split) and another exceeds it (a split).
C1_Witness ==
    /\ SegCalled /\ segOut.status = "ok"
    /\ Len(times) >= 3
    /\ times # Ranked(times)
    /\ \E i \in 1 .. Len(times) - 1 :
           Ranked(times)[i + 1] - Ranked(times)[i] = segThreshold
    /\ Len(segOut.value) = 2

\* C2: on a non-empty frame (a single timestamp included) the number of blocks
\* is 1 + the number of consecutive differences that exceed the threshold.
C2_BlockCount ==
    (SegCalled /\ Len(times) >= 1) =>
        /\ segOut.status = "ok"
        /\ Len(segOut.value) = 1 + Cardinality(Gaps(Ranked(times), segThreshold))

\* C2 witness: a single timestamp t, returned as the one block [t, t].
C2_Witness ==
    /\ segOut.status = "ok"
    /\ Len(times) = 1
    /\ segOut.value = <<[begin |-> times[1], end |-> times[1]]>>

\* C3: on a non-empty frame with threshold >= 0, every block has its begin and
\* end among the input timestamps with begin <= end, and consecutive blocks
\* are ordered and disjoint: end_i < begin_(i+1).
C3_BlocksOrderedDisjoint ==
    (SegCalled /\ Len(times) >= 1 /\ segThreshold >= 0) =>
        /\ segOut.status = "ok"
        /\ \A k \in DOMAIN segOut.value :
               /\ segOut.value[k].begin \in Range(times)
               /\ segOut.value[k].end \in Range(times)
               /\ segOut.value[k].begin <= segOut.value[k].end
        /\ \A k \in 1 .. Len(segOut.value) - 1 :
               /\ segOut.value[k].end < segOut.value[k + 1].begin
               /\ segOut.value[k].begin < segOut.value[k + 1].begin

\* C3 witness: threshold 0, duplicate timestamps, and two blocks.
C3_Witness ==
    /\ segOut.status = "ok"
    /\ segThreshold = 0
    /\ Cardinality(Range(times)) < Len(times)
    /\ Len(segOut.value) >= 2

\* C4 (as claimed): a call on zero or one timestamp returns no block list.
C4_NoBlocksBelowTwo ==
    (SegCalled /\ Len(times) < 2) => segOut.status # "ok"

-----------------------------------------------------------------------------
(* Properties of get_raw_df and get_score_df, checked under Spec *)

\* C5 (as claimed): the frame a get_raw_df(date) call returns is the one
\* materialized for the date it asked for.
C5_ReturnsRequestedDate ==
    \A t \in Threads :
        (ret[t].status = "ok" /\ ret[t].value.type = "raw") =>
            ret[t].value.date = arg[t]

\* C6 (as claimed): the raw frame is materialized again only when the cache is
\* empty or the requested date differs from the date the cached frame was
\* built for; a call repeating that date is served from the cache.
C6_RematerializedOnlyWhenStale ==
    [][\A t \in Threads :
          (pc[t] # "raw_get_df" /\ pc'[t] = "raw_get_df") =>
              (~IsSome(cell["raw_df"]) \/ Unwrap(cell["raw_df"]).date # arg[t])]_vars

RawSection ==
    {"raw_check", "raw_date_lock", "raw_date_read", "raw_get_df", "raw_store",
     "raw_store_end", "raw_clone"}

ScoreSection ==
    {"score_check", "score_get_df", "score_store", "score_store_end", "score_clone"}

\* C7: at most one thread at a time is inside the check-compute-publish section
\* of a cache slot, no thread reads a slot whose assignment is under way, and
\* no call returns such a value.
C7_MutualExclusion ==
    /\ \A t1, t2 \in Threads :
           t1 # t2 =>
               /\ ~(pc[t1] \in RawSection /\ pc[t2] \in RawSection)
               /\ ~(pc[t1] \in ScoreSection /\ pc[t2] \in ScoreSection)
    /\ \A t \in Threads :
           /\ pc[t] \in {"raw_check", "raw_clone"} => cell["raw_df"] # Some(Torn)
           /\ pc[t] \in {"score_check", "score_clone"} => cell["score_df"] # Some(Torn)
           /\ ret[t].status = "ok" => ret[t].value # Torn

\* C7 witness: one thread is part-way through writing the raw slot while
\* another waits for its lock.
C7_Witness ==
    \E t1, t2 \in Threads :
        /\ pc[t1] = "raw_store_end"
        /\ cell["raw_df"] = Some(Torn)
        /\ pc[t2] = "raw_lock"

-----------------------------------------------------------------------------
(* Properties of NDHistogram::new, checked under SpecHist *)

HistCalled == histOut.status # "none"

\* No sequence of the input is empty (and there is at least one).
NonEmptyInput == histData # <<>> /\ \A d \in DOMAIN histData : histData[d] # <<>>

\* b^e, counted as the number of e-tuples over b values.
Exp(b, e) == Cardinality([1 .. e -> 1 .. b])

RECURSIVE SumSeq(_)
SumSeq(s) == IF s = <<>> THEN 0 ELSE Head(s) + SumSeq(Tail(s))

\* C8: a histogram returned for non-empty input of D sequences and bin count n
\* has D borders of n + 1 entries each and n^D baskets, so n()^dim() is the
\* number of baskets.
C8_Shape ==
    (histOut.status = "ok" /\ NonEmptyInput) =>
        LET h == histOut.value
            D == Len(histData)
        IN  /\ Len(h.borders) = D
            /\ \A d \in 1 .. D : Len(h.borders[d]) = histN + 1
            /\ Len(h.baskets) = Exp(histN, D)
            /\ Exp(HistN(h), HistDim(h)) = Len(h.baskets)

\* C8 witness: two dimensions and three bins give nine baskets.
C8_Witness ==
    /\ histOut.status = "ok"
    /\ NonEmptyInput
    /\ Len(histData) = 2
    /\ histN = 3
    /\ Len(histOut.value.baskets) = 9

\* C9 (as claimed): when the input has no sequence or any of its sequences is
\* empty, the call returns the canonical empty histogram.
C9_AnyEmptyGivesEmptyHistogram ==
    (HistCalled /\ ~NonEmptyInput) =>
        /\ histOut = Ok(EmptyHistogram)
        /\ HistDim(histOut.value) = 0
        /\ HistN(histOut.value) = 0

\* Sample i lies inside the bin range [first border, last border] of every
\* dimension of histogram h.
InBinRange(h, i) ==
    \A d \in DOMAIN histData :
        LET first == h.borders[d][1]
            last == h.borders[d][Len(h.borders[d])]
        IN  /\ first.den > 0
            /\ first.num <= histData[d][i] * first.den
            /\ histData[d][i] * last.den <= last.num

\* C10 (as claimed): a sample outside the bin range of some dimension is
\* counted in no basket, so the baskets count at most the samples inside the
\* bin range of every dimension.
C10_OutOfRangeNotCounted ==
    (histOut.status = "ok" /\ NonEmptyInput) =>
        SumSeq(histOut.value.baskets) <=
            Cardinality({i \in 1 .. Len(histData[1]) : InBinRange(histOut.value, i)})

\* The arguments satisfy the documented precondition: at least one sequence,
\* none empty, all of one length, limits (when supplied) one per sequence, and
\* at least one bin.
ValidHistInput ==
    /\ NonEmptyInput
    /\ \A d \in DOMAIN histData : Len(histData[d]) = Len(histData[1])
    /\ (IsSome(histLimits) => Len(Unwrap(histLimits)) = Len(histData))
    /\ histN >= 1

\* The range [lo, hi] of dimension d: limits[d] when supplied, else the
\* observed (min, max) of the dimension.
LoHi(d) ==
    IF IsSome(histLimits) /\ IsSome(Unwrap(histLimits)[d])
    THEN Unwrap(Unwrap(histLimits)[d])
    ELSE <<SetMin(Range(histData[d])), SetMax(Range(histData[d]))>>

\* Sample i lies within [lo, hi] in every dimension.
InLoHi(i) ==
    \A d \in DOMAIN histData :
        LoHi(d)[1] <= histData[d][i] /\ histData[d][i] <= LoHi(d)[2]

\* C11 (as claimed): for every valid non-empty input the call returns a
\* histogram whose basket counts sum to at most the number of samples, and to
\* exactly the number of samples when every sample lies within [lo, hi] in
\* every dimension (as it does whenever no limits are supplied).
C11_SumConserved ==
    (HistCalled /\ ValidHistInput) =>
        /\ histOut.status = "ok"
        /\ SumSeq(histOut.value.baskets) <= Len(histData[1])
        /\ (\A i \in 1 .. Len(histData[1]) : InLoHi(i)) =>
               SumSeq(histOut.value.baskets) = Len(histData[1])

\* C11, for the histograms that are returned: the same statement without the
\* requirement that the call returns.
C11_SumConservedWhenReturned ==
    (HistCalled /\ ValidHistInput /\ histOut.status = "ok") =>
        /\ SumSeq(histOut.value.baskets) <= Len(histData[1])
        /\ (\A i \in 1 .. Len(histData[1]) : InLoHi(i)) =>
               SumSeq(histOut.value.baskets) = Len(histData[1])

\* x equals the rational q.
EqualsRational(x, q) == q.den > 0 /\ q.num = x * q.den

\* C12 (as claimed): for every valid non-empty input, whatever the relation
\* between the bin count and the number of dimensions, the call returns a
\* histogram whose borders of dimension d run from lo to hi: limits[d] when
\* supplied, else the observed (min, max) of the dimension.
C12_SucceedsAndBordersSpan ==
    (HistCalled /\ ValidHistInput) =>
        /\ histOut.status = "ok"
        /\ \A d \in DOMAIN histData :
               LET border == histOut.value.borders[d]
               IN  /\ EqualsRational(LoHi(d)[1], border[1])
                   /\ EqualsRational(LoHi(d)[2], border[Len(border)])

\* The sequences are not all of one length.
UnequalLengths == \E d \in DOMAIN histData : Len(histData[d]) # Len(histData[1])

\* Limits are supplied and are not one per sequence.
LimitsLengthDiffers == IsSome(histLimits) /\ Len(Unwrap(histLimits)) # Len(histData)

\* C18: on non-empty sequences of unequal length, or with supplied limits
\* whose length is not the number of sequences, the call panics in its
\* assertion and returns no histogram, neither a partial nor the empty one.
C18_PreconditionViolationPanics ==
    (HistCalled /\ NonEmptyInput /\ (UnequalLengths \/ LimitsLengthDiffers)) =>
        /\ histOut = Panic("assertion failed")
        /\ histOut.status # "ok"

\* C18 witness: two non-empty sequences of different lengths, refused.
C18_Witness ==
    /\ histOut = Panic("assertion failed")
    /\ NonEmptyInput
    /\ UnequalLengths
    /\ ~LimitsLengthDiffers

\* C18 witness of the other case: equal lengths, limits one too long.
C18_WitnessLimits ==
    /\ histOut = Panic("assertion failed")
    /\ NonEmptyInput
    /\ ~UnequalLengths
    /\ LimitsLengthDiffers

\* The ascending sequence 1, 2, .., len.
Ascending(len) == [i \in 1 .. len |-> i]

\* C20 (as claimed, after tests::test): on two identical non-empty ascending
\* sequences 1 .. N, three bins and no limits, the call returns the canonical
\* empty histogram.
C20_TestExpectsEmptyHistogram ==
    (/\ HistCalled
     /\ Len(histData) = 2
     /\ histData[1] # <<>>
     /\ histData[1] = Ascending(Len(histData[1]))
     /\ histData[2] = histData[1]
     /\ histN = 3
     /\ histLimits = None) =>
        histOut = Ok(EmptyHistogram)

\* The coordinate vectors of D dimensions with every coordinate in [0, n).
CoordVectors(D, n) == [1 .. D -> 0 .. n - 1]

\* sum over d of c[d] * n^(D-1-d), dimension 0 (here c[1]) first.
MixedRadix(c, n) == SumSeq([d \in DOMAIN c |-> c[d] * Exp(n, Len(c) - d)])

\* C21: for the bin count n and the number of dimensions D of a construction,
\* NDCoords::into maps every coordinate vector c of [0, n)^D to
\* sum over d of c[d] * n^(D-1-d), dimension 0 being the most significant
\* digit, and is a bijection from [0, n)^D onto [0, n^D).
C21_FlatteningMixedRadix ==
    (histOut.status = "ok" /\ NonEmptyInput /\ histN >= 1) =>
        LET n == histN
            cs == CoordVectors(Len(histData), n)
            image == {NDCoordsInto(c, n) : c \in cs}
        IN  /\ \A c \in cs : NDCoordsInto(c, n) = MixedRadix(c, n)
            /\ image = 0 .. Exp(n, Len(histData)) - 1
            /\ Cardinality(image) = Cardinality(cs)

\* C21 witness: with three bins the sample (0, 2) of two dimensions has the
\* coordinates (0, 2) and is counted in basket 0 * 3 + 2.
C21_Witness ==
    /\ histOut.status = "ok"
    /\ histData = <<<<0, 1>>, <<2, 0>>>>
    /\ histN = 3
    /\ histLimits = None
    /\ histOut.value.baskets[3] = 1

\* delta of dimension d in units of 0.00000001: max(hi - lo + 1e-8, 1e-6).
DeltaOf(d) == Max2((LoHi(d)[2] - LoHi(d)[1]) * UnitsPerOne + 1, MinDeltaUnits)

\* floor(((value - lo) / delta) * n) of sample i in dimension d, for a sample
\* within [lo, hi]: the c with c <= ((value - lo) / delta) * n < c + 1.
CoordOf(d, i) ==
    CHOOSE c \in 0 .. histN :
        /\ c * DeltaOf(d) <= (histData[d][i] - LoHi(d)[1]) * histN * UnitsPerOne
        /\ (histData[d][i] - LoHi(d)[1]) * histN * UnitsPerOne < (c + 1) * DeltaOf(d)

\* The flattened index of the coordinates of sample i.
FlatOf(i) == MixedRadix([d \in DOMAIN histData |-> CoordOf(d, i)], histN)

\* C22: in a histogram returned for valid input every sample within [lo, hi]
\* is counted in the basket at the flattened index of its coordinates
\* floor(((value - lo) / delta) * n); when all samples are within [lo, hi],
\* the count of basket k is the number of samples that flatten to k. The data
\* [1,2,3] x [1,2,3] with three bins and no limits gives 1 in baskets 0, 4, 8
\* and 0 elsewhere.
C22_CountsPerBasket ==
    (histOut.status = "ok" /\ ValidHistInput) =>
        LET baskets == histOut.value.baskets
            samples == 1 .. Len(histData[1])
            InBasket(k) == {i \in samples : InLoHi(i) /\ FlatOf(i) = k}
        IN  /\ \A k \in 0 .. Len(baskets) - 1 :
                   /\ baskets[k + 1] >= Cardinality(InBasket(k))
                   /\ (\A i \in samples : InLoHi(i)) =>
                          baskets[k + 1] = Cardinality(InBasket(k))
            /\ (histData = ScenarioData /\ histN = 3 /\ histLimits = None) =>
                   baskets = <<1, 0, 0, 0, 1, 0, 0, 0, 1>>

\* C22 witness: the scenario, each sample counted on the diagonal.
C22_Witness ==
    /\ histOut.status = "ok"
    /\ histData = ScenarioData
    /\ histN = 3
    /\ histLimits = None
    /\ histOut.value.baskets = <<1, 0, 0, 0, 1, 0, 0, 0, 1>>

\* All values of dimension d are equal.
ConstantDimension(d) == \A i \in DOMAIN histData[d] : histData[d][i] = histData[d][1]

\* Coordinate d of the basket with flat index k.
Digit(k, d) == (k \div Exp(histN, Len(histData) - d)) % histN

\* What C23 asks of a call: it returns, every sample is counted, and every
\* counted sample has coordinate 0 in each dimension of equal values.
ConstantDimensionHandled ==
    /\ histOut.status = "ok"
    /\ SumSeq(histOut.value.baskets) = Len(histData[1])
    /\ \A d \in DOMAIN histData : ConstantDimension(d) =>
           \A k \in 0 .. Len(histOut.value.baskets) - 1 :
               histOut.value.baskets[k + 1] > 0 => Digit(k, d) = 0

\* C23 (as claimed): on valid input without limits of which some dimension
\* holds equal values only, the call does not fail, every sample gets
\* coordinate 0 in that dimension and every sample is counted.
C23_ConstantDimensionCounted ==
    (/\ HistCalled
     /\ ValidHistInput
     /\ histLimits = None
     /\ \E d \in DOMAIN histData : ConstantDimension(d)) => ConstantDimensionHandled

\* C23, when there are at least as many bins as dimensions.
C23_ConstantDimensionWithinBins ==
    (/\ HistCalled
     /\ ValidHistInput
     /\ histLimits = None
     /\ Len(histData) <= histN
     /\ \E d \in DOMAIN histData : ConstantDimension(d)) => ConstantDimensionHandled

-----------------------------------------------------------------------------
(* Properties of the movement score, checked under SpecRaw *)

WithMovementScoreCalled ==
    mvCall = Some([op |-> "with_movement_score", n |-> MovementWindow])

\* C13 (as claimed): for every number L of rows, L <= 15 included, the call
\* with_movement_score returns a frame whose movement column has exactly L
\* entries, of which the first 15 (all of them when L < 15) are exactly 0.0.
C13_ColumnAsLongAsFrame ==
    WithMovementScoreCalled =>
        /\ mvOut.status = "ok"
        /\ Len(mvOut.value) = Len(acc)
        /\ \A i \in 1 .. MovementWindow :
               i <= Len(mvOut.value) => mvOut.value[i] = Zero

\* C13, from 15 rows on: the column has exactly L entries and starts with 15
\* zeros.
C13_ColumnFromFifteenRows ==
    (WithMovementScoreCalled /\ Len(acc) >= MovementWindow) =>
        /\ mvOut.status = "ok"
        /\ Len(mvOut.value) = Len(acc)
        /\ \A i \in 1 .. MovementWindow : mvOut.value[i] = Zero

CalcMovementScoreCalled ==
    IsSome(mvCall) /\ Unwrap(mvCall).op = "calc_movement_score"

\* |x[j+1]-x[j]| + |y[j+1]-y[j]| + |z[j+1]-z[j]| for the rows j, j + 1 (from 1).
StepOf(j) ==
    Abs(acc[j + 1][1] - acc[j][1]) + Abs(acc[j + 1][2] - acc[j][2])
        + Abs(acc[j + 1][3] - acc[j][3])

\* The sum of StepOf over the n rows from row k on.
WindowSum(k, n) == SumSeq([j \in 1 .. n |-> StepOf(k + j - 1)])

\* The values a sequential left-to-right computation returns: value k (from 1)
\* is the mean of window k of the differences in row order, divided by 8.
SequentialScore(n) ==
    [k \in 1 .. (IF Len(acc) > n THEN Len(acc) - n ELSE 0) |->
        [num |-> WindowSum(k, n), den |-> n * ScoreDivisor]]

\* C24 (as claimed): for a window n >= 1 and L > n rows, calc_movement_score(n)
\* returns L - n values, value k being the sum of the three absolute axis
\* differences over the rows k .. k+n-1, divided by n and by 8.0, and every
\* value is >= 0.
C24_WindowMeans ==
    (CalcMovementScoreCalled /\ Unwrap(mvCall).n >= 1 /\ Len(acc) > Unwrap(mvCall).n) =>
        LET n == Unwrap(mvCall).n
        IN  /\ mvOut.status = "ok"
            /\ Len(mvOut.value) = Len(acc) - n
            /\ \A k \in DOMAIN mvOut.value :
                   /\ mvOut.value[k].den = n * ScoreDivisor
                   /\ mvOut.value[k].num = WindowSum(k, n)
                   /\ mvOut.value[k].num >= 0

\* C24, without the order: L - n values, each >= 0.
C24_CountAndSign ==
    (CalcMovementScoreCalled /\ Unwrap(mvCall).n >= 1 /\ Len(acc) > Unwrap(mvCall).n) =>
        /\ mvOut.status = "ok"
        /\ Len(mvOut.value) = Len(acc) - Unwrap(mvCall).n
        /\ \A k \in DOMAIN mvOut.value :
               mvOut.value[k].den > 0 /\ mvOut.value[k].num >= 0

\* C25 (as claimed): whatever the workers' schedule, calc_movement_score
\* returns what a sequential left-to-right computation returns: position k
\* holds the value of window k over the differences in row order.
C25_ScheduleIndependent ==
    (CalcMovementScoreCalled /\ Unwrap(mvCall).n >= 1) =>
        /\ mvOut.status = "ok"
        /\ mvOut.value = SequentialScore(Unwrap(mvCall).n)

CalcPostureDistributionCalled ==
    IsSome(mvCall) /\ Unwrap(mvCall).op = "calc_posture_distribution"

\* C26 (as claimed): under every schedule the two sequences handed to
\* NDHistogram::new are aligned by row: entry i of the pitch sequence and
\* entry i of the angle-sum sequence both come from row i, so the call is the
\* same on every run.
C26_FeaturesAligned ==
    CalcPostureDistributionCalled =>
        /\ mvOut.status = "ok"
        /\ Len(mvOut.value.data[1]) = Len(posture)
        /\ Len(mvOut.value.data[2]) = Len(posture)
        /\ \A i \in DOMAIN posture :
               /\ mvOut.value.data[1][i] = posture[i].pitch
               /\ mvOut.value.data[2][i] = posture[i].bend

\* C26, for the angle sums alone: entry i comes from row i.
C26_AngleSumsInRowOrder ==
    CalcPostureDistributionCalled =>
        /\ mvOut.status = "ok"
        /\ mvOut.value.data[2] = [i \in DOMAIN posture |-> posture[i].bend]

-----------------------------------------------------------------------------
(* Properties of timespan, day and get_days, checked under SpecDay *)

TimespanCalled == DayCalled("timespan")

\* The validity window, as NaiveDateTimes.
WindowBegin == [date |-> Date2023, secs |-> 0, milli |-> 0]
WindowEnd == [date |-> Date2024, secs |-> 0, milli |-> 0]

InWindow(t) == DateTimeLeq(WindowBegin, t) /\ DateTimeLeq(t, WindowEnd)

\* C14 (as claimed): on a frame with at least one timestamp, timespan returns
\* a Timespan with begin <= end and both ends inside
\* [2023-01-01 00:00:00, 2024-01-01 00:00:00], also when every timestamp lies
\* before the window or every timestamp lies after it.
C14_SpanOrderedInsideWindow ==
    (TimespanCalled /\ stamps # <<>>) =>
        /\ IsSome(dayOut.value)
        /\ DateTimeLeq(Unwrap(dayOut.value).begin, Unwrap(dayOut.value).end)
        /\ InWindow(Unwrap(dayOut.value).begin)
        /\ InWindow(Unwrap(dayOut.value).end)

\* Some timestamp of the frame lies inside the window.
SomeStampInWindow == \E i \in DOMAIN stamps : InWindow(from_timestamp_millis(stamps[i]))

\* C14, for frames with a timestamp inside the window.
C14_SpanOfFrameReachingWindow ==
    (TimespanCalled /\ SomeStampInWindow) =>
        /\ IsSome(dayOut.value)
        /\ DateTimeLeq(Unwrap(dayOut.value).begin, Unwrap(dayOut.value).end)
        /\ InWindow(Unwrap(dayOut.value).begin)
        /\ InWindow(Unwrap(dayOut.value).end)

\* The last millisecond of a day that day(date) and get_days still select:
\* 23:59:59.000.
LastSelectedMs == 86399000

\* The rows stamped date 00:00:00.000 .. date 23:59:59.000, in their order.
RowsOfDay(date) ==
    LET OnDay(x) == x.day = date /\ x.ms <= LastSelectedMs
    IN  SelectSeq(stamps, OnDay)

\* C17: day(date) returns exactly the rows stamped from date 00:00:00.000 to
\* date 23:59:59.000, in their original order: no row of the last 999 ms of
\* the day and no row of another date.
C17_DaySelectsUpToLastSecond ==
    DayCalled("day") =>
        LET date == Unwrap(dayCall).arg
            rows == dayOut.value
        IN  /\ rows = RowsOfDay(date)
            /\ \A k \in DOMAIN rows :
                   rows[k].day = date /\ rows[k].ms <= LastSelectedMs

\* C17 witness: of two rows of the date, the one stamped 23:59:59.000 is
\* selected and the one stamped 23:59:59.500 is not.
C17_Witness ==
    /\ DayCalled("day")
    /\ \E i \in DOMAIN stamps :
           stamps[i] = [day |-> Unwrap(dayCall).arg, ms |-> 86399500]
    /\ dayOut.value = <<[day |-> Unwrap(dayCall).arg, ms |-> LastSelectedMs]>>

\* The days get_days goes through: those of timespan().days().
SpanDays == IF IsSome(timespan(stamps)) THEN days(Unwrap(timespan(stamps))) ELSE <<>>

\* What a get_days call must return: in calendar order without repetition,
\* exactly the days of SpanDays with more than min_length rows, each with its
\* rows; nothing for a frame without rows.
GetDaysResultRight ==
    DayCalled("get_days") =>
        LET min_length == UnwrapOr(Unwrap(dayCall).arg, 0)
            out == dayOut.value
        IN  /\ dayOut.status = "ok"
            /\ stamps = <<>> => out = <<>>
            /\ \A k \in 1 .. Len(out) - 1 : out[k].time < out[k + 1].time
            /\ {out[k].time : k \in DOMAIN out} =
                   {d \in Range(SpanDays) : Len(RowsOfDay(d)) > min_length}
            /\ \A k \in DOMAIN out : out[k].data = RowsOfDay(out[k].time)

\* A get_days call leaves the frame as it is, and repeated with the same
\* min_length it returns what the call before it returned.
GetDaysRestartable ==
    (IsSome(dayCall') /\ Unwrap(dayCall').op = "get_days") =>
        /\ stamps' = stamps
        /\ (/\ DayCalled("get_days")
            /\ Unwrap(dayCall').arg = Unwrap(dayCall).arg) => dayOut' = dayOut

\* C15: get_days(min_length) returns, in calendar order, exactly the days of
\* timespan().days() whose rows number more than min_length (0 when None),
\* and the empty list for a frame without timestamps; the frame is unchanged
\* and a repeated call returns the same list.
C15_GetDays == [](GetDaysResultRight) /\ [][GetDaysRestartable]_vars

\* C15 witness: a day of the span without rows is left out, another is
\* returned.
C15_Witness ==
    /\ DayCalled("get_days")
    /\ dayOut.value # <<>>
    /\ Len(dayOut.value) < Len(SpanDays)

\* The dates of the two ends of the clamped span of a frame with rows.
ClampedBeginDate == Max2(SetMin({stamps[i].day : i \in DOMAIN stamps}), Date2023)
ClampedEndDate ==
    LET last == SetMax({stamps[i].day : i \in DOMAIN stamps})
    IN  IF last < Date2024 THEN last ELSE Date2024

\* C16: a span within one calendar day has exactly one day and get_days
\* returns at most one entry; a span crossing exactly one midnight has exactly
\* two days and get_days returns at most two entries.
C16_OneOrTwoDays ==
    (DayCalled("get_days") /\ stamps # <<>>) =>
        /\ ClampedBeginDate = ClampedEndDate =>
               Len(SpanDays) = 1 /\ Len(dayOut.value) <= 1
        /\ ClampedBeginDate + 1 = ClampedEndDate =>
               Len(SpanDays) = 2 /\ Len(dayOut.value) <= 2

\* C16 witness: rows on both sides of one midnight, two entries returned.
C16_Witness ==
    /\ DayCalled("get_days")
    /\ stamps # <<>>
    /\ ClampedBeginDate + 1 = ClampedEndDate
    /\ Len(dayOut.value) = 2


-----------------------------------------------------------------------------
(* The score cache of get_score_df, checked under Spec *)

\* A thread holds a score table it has read and not yet published.
HoldsScoreTable(t) == pc[t] \in {"score_store", "score_store_end"}

\* C27: the score table is materialized only while the score slot is empty and
\* no other thread holds a materialized table, a slot that has been filled is
\* never emptied or overwritten, and every value get_score_df returns is the
\* one table that was materialized.
C27_ScoreMaterializedOnce ==
    /\ [](\A t \in Threads :
             (ret[t].status = "ok" /\ ret[t].value.type # "raw") =>
                 (ret[t].value = ScoreDf /\ cell["score_df"] = Some(ScoreDf)))
    /\ [][/\ \A t \in Threads :
                (~HoldsScoreTable(t) /\ HoldsScoreTable(t)') =>
                    /\ cell["score_df"] = None
                    /\ \A u \in Threads : ~HoldsScoreTable(u)
          /\ IsSome(cell["score_df"]) => IsSome(cell["score_df"]')
          /\ cell["score_df"] = Some(ScoreDf) => cell["score_df"]' = Some(ScoreDf)]_vars

\* C27 witness: one thread has returned the cached table, a second call found
\* the slot filled and is about to copy it.
C27_Witness ==
    \E t1, t2 \in Threads :
        /\ t1 # t2
        /\ ret[t1] = Ok(ScoreDf)
        /\ pc[t1] = "idle"
        /\ pc[t2] = "score_clone"
        /\ cell["score_df"] = Some(ScoreDf)


-----------------------------------------------------------------------------
(* Termination of get_raw_df and get_score_df, checked under SpecFair *)

\* C30: with successful reads and fair scheduling every call that has been
\* made returns a value; no thread waits for a lock for ever.
C30_EveryCallReturns ==
    \A t \in Threads :
        (pc[t] # "idle") ~> (pc[t] = "idle" /\ ret[t].status = "ok")

\* C30 witness: one thread holds the raw cache lock and, inside it, the
\* last-date lock, while another thread waits for the raw cache lock.
C30_Witness ==
    \E t1, t2 \in Threads :
        /\ pc[t1] = "raw_date_read"
        /\ mutex["raw_df"].holder = t1
        /\ mutex["last_raw_df_date"].holder = t1
        /\ pc[t2] = "raw_lock"


-----------------------------------------------------------------------------
(* Properties of Display for NDHistogram, checked under SpecHist *)

DisplayCalled == histText.status # "none"

\* The text Display is said to write for baskets of one-digit counts: the
\* counts in flat-index order, a line break after every n-th count and a
\* comma after every other count but the last.
GroupedText(baskets, n) ==
    [p \in 1 .. 2 * Len(baskets) - 1 |->
        IF p % 2 = 1 THEN Digits[baskets[(p + 1) \div 2] + 1]
        ELSE IF (p \div 2) % n = 0 THEN "\n" ELSE ","]

\* C29 (as claimed): formatting a histogram that new returned, the canonical
\* empty histogram included, completes; the text of a non-empty histogram is
\* its baskets in flat-index order, n() counts to a line.
C29_DisplayCompletes ==
    DisplayCalled =>
        /\ histText.status = "ok"
        /\ histOut.value.baskets # <<>> =>
               histText.value = GroupedText(histOut.value.baskets, HistN(histOut.value))

\* What holds instead: a histogram with at least one bin per dimension is
\* written in flat-index order, n() counts to a line.
C29_DisplayOfBinnedHistogram ==
    (DisplayCalled /\ HistN(histOut.value) > 0) =>
        histText = Ok(GroupedText(histOut.value.baskets, HistN(histOut.value)))

\* A two-dimensional histogram of two bins per dimension has been written.
C29_WitnessBinned ==
    /\ DisplayCalled
    /\ HistN(histOut.value) = 2
    /\ HistDim(histOut.value) = 2
    /\ histText = Ok(<<"1", ",", "0", "\n", "0", ",", "1">>)


\* Display has failed on a histogram built from samples with no bins.
C29_WitnessNoBins ==
    /\ histData # <<>>
    /\ histData[1] # <<>>
    /\ histN = 0
    /\ histOut.status = "ok"
    /\ histText = Panic("chunk size must be non-zero")


-----------------------------------------------------------------------------
(* Properties of split_into_time_chunks, checked under SpecSeg *)

SplitCalled == splitOut.status # "none"

\* The rows of the frame whose timestamp lies in [run.begin, run.end], in row
\* order, as the time column of a sub-selection.
RowsOfRun(run) ==
    LET kept == SelectSeq(times, LAMBDA t : run.begin <= t /\ t <= run.end)
    IN  [i \in DOMAIN kept |-> EpochMillis(kept[i])]

\* C28: with a threshold >= 0 and at least one row, split_into_time_chunks
\* returns one sub-selection per activity block, in block order, holding the
\* rows of that block; no sub-selection is empty, every row is in exactly one
\* of them and their row counts add up to the rows of the frame.
C28_ChunksPartitionRows ==
    (SplitCalled /\ splitDuration >= 0 /\ times # <<>>) =>
        /\ splitOut.status = "ok"
        /\ LET chunks == splitOut.value
               runs == MaximalRuns(Ranked(times), splitDuration)
           IN  /\ Len(chunks) = Len(runs)
               /\ \A k \in DOMAIN chunks :
                      /\ chunks[k] = RowsOfRun(runs[k])
                      /\ chunks[k] # <<>>
               /\ \A i \in DOMAIN times :
                      Cardinality({k \in DOMAIN chunks :
                                      EpochMillis(times[i]) \in Range(chunks[k])}) = 1
               /\ SumSeq([k \in DOMAIN chunks |-> Len(chunks[k])]) = Len(times)

\* C28 witness: an unsorted frame with a repeated timestamp has been split into
\* two sub-selections.
C28_Witness ==
    /\ times = <<3, 0, 0>>
    /\ splitDuration = 1
    /\ splitOut = Ok(<<<<EpochMillis(0), EpochMillis(0)>>, <<EpochMillis(3)>>>>)


-----------------------------------------------------------------------------
(* ScoreDf::get_days, checked under SpecDay *)

\* ScoreDf::get_days leaves the frame's rows in ascending order of t and
\* returns them day by day: the groups, put one after the other, are the
\* sorted frame, each group holds one day, and the days ascend.
ScoreDfGetDaysSortsFrame ==
    DayCalled("ScoreDf::get_days") =>
        /\ \A i \in 1 .. Len(stamps) - 1 : MillisLeq(stamps[i], stamps[i + 1])
        /\ dayOut.status = "ok"
        /\ \A g \in DOMAIN dayOut.value :
               /\ dayOut.value[g].status = "ok"
               /\ dayOut.value[g].value # <<>>
               /\ \A i \in DOMAIN dayOut.value[g].value :
                      dayOut.value[g].value[i].day = dayOut.value[g].value[1].day
        /\ \A g \in 1 .. Len(dayOut.value) - 1 :
               dayOut.value[g].value[1].day < dayOut.value[g + 1].value[1].day
        /\ SumSeq([g \in DOMAIN dayOut.value |-> Len(dayOut.value[g].value)]) =
               Len(stamps)

\* An unsorted frame of two days has been sorted and split by ScoreDf::get_days.
ScoreDfGetDaysWitness ==
    /\ DayCalled("ScoreDf::get_days")
    /\ Len(stamps) = 2
    /\ stamps[1].day < stamps[2].day
    /\ Len(dayOut.value) = 2

=============================================================================
